---- MODULE Spec2Model ----
(***************************************************************************)
(* Model of backend/app.py: the /chat handler (two-phase tool-calling      *)
(* protocol over the shared conversation_history) and the tools it calls.  *)
(*                                                                         *)
(* Python values are represented as follows.                               *)
(*   str    a sequence of fragments; a fragment is a one-character string, *)
(*          or a whole literal of the source kept as one fragment.  ""     *)
(*          is << >> and + is \o.                                          *)
(*   dict   a function from its keys (a record); {} is EmptyDict;          *)
(*          d.get(k) is truthy iff k \in DOMAIN d and d[k] is truthy.      *)
(*   list   a sequence.                                                    *)
(*   a JSON scalar whose type the code tests (the "text" of a part) is a   *)
(*          tagged record [type |-> "str" | "int", val |-> fragments].     *)
(***************************************************************************)
EXTENDS Integers, Sequences, FiniteSets, TLC

(* ------------------------------ bounds --------------------------------- *)
\* requests served by concurrent server threads in ConcSpec
NumThreads == 2
\* plain exchanges already in the log when the model starts
MaxPrior == 6
\* content parts in a model reply
MaxParts == 2

\* longest page text of a FAQ document
MaxTextLen == 6

\* most entries of a FAQ mapping
MaxEntries == 2

(* ------------------------- program constants --------------------------- *)
MAX_HISTORY_TURNS == 5

EmptyDict == [k \in {} |-> k]

Truthy(v) == DOMAIN v # {}

Has(d, k) == k \in DOMAIN d /\ Truthy(d[k])

(* ------------------------------ strings -------------------------------- *)
UpperChar(c) == CASE c = "p" -> "P" [] c = "a" -> "A" [] c = "b" -> "B" [] OTHER -> c

LowerChar(c) == CASE c = "P" -> "p" [] c = "A" -> "a" [] c = "B" -> "b" [] OTHER -> c

upper(s) == [i \in DOMAIN s |-> UpperChar(s[i])]

lower(s) == [i \in DOMAIN s |-> LowerChar(s[i])]

\* Python's  sub in s
In(sub, s) ==
    \E k \in 0..(Len(s) - Len(sub)) : \A i \in 1..Len(sub) : s[k + i] = sub[i]

IsSpace(c) == c \in {" ", "\n"}

\* the characters [A-Za-z] of the texts used here
IsLetter(c) == c \in {"a", "b", "p", "f", "q", "s", "A", "B", "P"}

\* Python's  s.split() : maximal runs of non-whitespace, in order
RECURSIVE SplitFrom(_, _, _)
SplitFrom(s, i, cur) ==
    IF i > Len(s) THEN (IF cur = << >> THEN << >> ELSE <<cur>>)
    ELSE IF IsSpace(s[i])
         THEN (IF cur = << >> THEN << >> ELSE <<cur>>) \o SplitFrom(s, i + 1, << >>)
         ELSE SplitFrom(s, i + 1, Append(cur, s[i]))

split(s) == SplitFrom(s, 1, << >>)

\* Python's  s.strip()
strip(s) ==
    LET solid == { i \in DOMAIN s : ~ IsSpace(s[i]) }
    IN  IF solid = {} THEN << >>
        ELSE SubSeq(s, CHOOSE i \in solid : \A j \in solid : i <= j,
                       CHOOSE i \in solid : \A j \in solid : i >= j)

\* re.sub(r"\s+", " ", s): every run of whitespace becomes one space
RECURSIVE CollapseFrom(_, _)
CollapseFrom(s, i) ==
    IF i > Len(s) THEN << >>
    ELSE IF IsSpace(s[i])
         THEN (IF i > 1 /\ IsSpace(s[i - 1]) THEN << >> ELSE <<" ">>) \o CollapseFrom(s, i + 1)
         ELSE <<s[i]>> \o CollapseFrom(s, i + 1)

\* Python's  text[b:c]  for 0 <= b, c <= len(text)
Slice(text, b, c) == SubSeq(text, b + 1, c)

(* ------------------------ tool: product catalog ------------------------ *)
\* the catalog after loading: keys upper-cased
PRODUCT_CATALOG ==
    <<"P", "1">> :> [name |-> <<"n">>, price |-> 10, description |-> <<"d">>]

Returned(v) == [raised |-> FALSE, value |-> v]

Raised(e) == [raised |-> TRUE, exc |-> e]

\* exception classes as the except clauses of chat() see them
RequestExc == [req |-> TRUE, json |-> FALSE]

RequestsJSONDecodeExc == [req |-> TRUE, json |-> TRUE]

StdJSONDecodeExc == [req |-> FALSE, json |-> TRUE]

OtherExc == [req |-> FALSE, json |-> FALSE]

\* PRODUCT_CATALOG[product_id.upper()] in place of .get(): a missing key raises
get_product_details_KeyError(product_id) ==
    LET key == upper(product_id)
    IN  IF key \in DOMAIN PRODUCT_CATALOG /\ Truthy(PRODUCT_CATALOG[key])
        THEN Returned([status |-> "success", data |-> PRODUCT_CATALOG[key]])
        ELSE Raised(OtherExc)

get_product_details(product_id) ==
    LET key == upper(product_id)
    IN  IF key \in DOMAIN PRODUCT_CATALOG /\ Truthy(PRODUCT_CATALOG[key])
        THEN Returned([status |-> "success", data |-> PRODUCT_CATALOG[key]])
        ELSE Returned([status |-> "not_found",
                       message |-> <<"Product with ID '">> \o product_id \o <<"' not found.">>])

(* --------------------- tool: external posts service -------------------- *)
\* what the external service can answer to GET /posts?_limit=n
PostsReplies ==
    { [kind |-> "ok", posts |-> <<[id |-> 1, title |-> <<"t">>, body |-> <<"b">>]>>],
      [kind |-> "ok", posts |-> <<[id |-> 1]>>],
      [kind |-> "transport"],
      [kind |-> "undecodable", exc |-> RequestsJSONDecodeExc],
      [kind |-> "undecodable", exc |-> StdJSONDecodeExc] }

get_jsonplaceholder_posts(limit, reply) ==
    IF reply.kind = "transport"
    THEN Returned([status |-> "error", message |-> <<"Failed to fetch posts: ", "e">>])
    ELSE IF reply.kind = "undecodable"
    THEN (IF reply.exc.req
          THEN Returned([status |-> "error", message |-> <<"Failed to fetch posts: ", "e">>])
          ELSE Raised(reply.exc))
    ELSE IF \E i \in DOMAIN reply.posts : ~ ({"id", "title"} \subseteq DOMAIN reply.posts[i])
    THEN Raised(OtherExc)
    ELSE Returned([status |-> "success",
                   data |-> [i \in DOMAIN reply.posts |->
                               [id |-> reply.posts[i].id, title |-> reply.posts[i].title]]])

(* ----------------------------- tool: FAQ ------------------------------- *)
FAQ_SOURCE == <<"FAQ PDF">>

FAQ_UNAVAILABLE == <<"The FAQ document could not be loaded or parsed, or is empty.">>

FAQ_NOT_FOUND == <<"I couldn't find a direct answer to your question in the FAQ. Please try rephrasing or contact support.">>

\* pass 1 with >= in place of > : the last of the longest matches is kept
RECURSIVE BestMatch_LastWins(_, _, _, _, _)
BestMatch_LastWins(faq, query_lower, i, best, max_match_len) ==
    IF i > Len(faq) THEN best
    ELSE LET faq_question_key == faq[i].key
         IN  IF In(query_lower, faq_question_key)
             THEN (IF Len(query_lower) >= max_match_len /\ Len(query_lower) > 0
                   THEN BestMatch_LastWins(faq, query_lower, i + 1, i, Len(query_lower))
                   ELSE BestMatch_LastWins(faq, query_lower, i + 1, best, max_match_len))
             ELSE IF In(faq_question_key, query_lower)
             THEN (IF Len(faq_question_key) >= max_match_len
                   THEN BestMatch_LastWins(faq, query_lower, i + 1, i, Len(faq_question_key))
                   ELSE BestMatch_LastWins(faq, query_lower, i + 1, best, max_match_len))
             ELSE BestMatch_LastWins(faq, query_lower, i + 1, best, max_match_len)

\* pass 1: scan of the entries in dict order, carrying (best_match_key, max_match_len);
\* best is an index into faq, 0 for None
RECURSIVE BestMatch(_, _, _, _, _)
BestMatch(faq, query_lower, i, best, max_match_len) ==
    IF i > Len(faq) THEN best
    ELSE LET faq_question_key == faq[i].key
         IN  IF In(query_lower, faq_question_key)
             THEN (IF Len(query_lower) > max_match_len
                   THEN BestMatch(faq, query_lower, i + 1, i, Len(query_lower))
                   ELSE BestMatch(faq, query_lower, i + 1, best, max_match_len))
             ELSE IF In(faq_question_key, query_lower)
             THEN (IF Len(faq_question_key) > max_match_len
                   THEN BestMatch(faq, query_lower, i + 1, i, Len(faq_question_key))
                   ELSE BestMatch(faq, query_lower, i + 1, best, max_match_len))
             ELSE BestMatch(faq, query_lower, i + 1, best, max_match_len)

\* pass 2 with keywords longer than 3
KeywordMatch_Shorter(faq, query_lower) ==
    LET query_keywords == split(query_lower)
        hit(i) == \E j \in DOMAIN query_keywords :
                     /\ Len(query_keywords[j]) > 3
                     /\ In(query_keywords[j], lower(faq[i].content))
    IN  IF \E i \in DOMAIN faq : hit(i)
        THEN CHOOSE i \in DOMAIN faq : hit(i) /\ \A k \in 1..(i - 1) : ~ hit(k)
        ELSE 0

\* pass 2: first entry whose content holds a keyword longer than 4; 0 for none
KeywordMatch(faq, query_lower) ==
    LET query_keywords == split(query_lower)
        hit(i) == \E j \in DOMAIN query_keywords :
                     /\ Len(query_keywords[j]) > 4
                     /\ In(query_keywords[j], lower(faq[i].content))
    IN  IF \E i \in DOMAIN faq : hit(i)
        THEN CHOOSE i \in DOMAIN faq : hit(i) /\ \A k \in 1..(i - 1) : ~ hit(k)
        ELSE 0

\* the two passes in the other order: the keyword pass first
get_answers_from_pdf_KeywordFirst(query, faq) ==
    IF faq = << >>
    THEN [status |-> "error", answer |-> FAQ_UNAVAILABLE, source |-> FAQ_SOURCE]
    ELSE LET query_lower == lower(query)
             kw == KeywordMatch(faq, query_lower)
             best == IF kw = 0 THEN BestMatch(faq, query_lower, 1, 0, 0) ELSE 0
             found_answer == IF kw # 0 THEN faq[kw].content
                             ELSE IF best # 0 THEN faq[best].content ELSE << >>
         IN  IF found_answer # << >>
             THEN [status |-> "success", answer |-> found_answer, source |-> FAQ_SOURCE]
             ELSE [status |-> "not_found", answer |-> FAQ_NOT_FOUND, source |-> FAQ_SOURCE]

\* faq is FAQ_DATA: the entries [key, content] in insertion order
get_answers_from_pdf(query, faq) ==
    IF faq = << >>
    THEN [status |-> "error", answer |-> FAQ_UNAVAILABLE, source |-> FAQ_SOURCE]
    ELSE LET query_lower == lower(query)
             best == BestMatch(faq, query_lower, 1, 0, 0)
             direct == IF best # 0 /\ faq[best].key # << >> THEN faq[best].content ELSE << >>
             kw == IF direct = << >> THEN KeywordMatch(faq, query_lower) ELSE 0
             found_answer == IF direct # << >> THEN direct
                             ELSE IF kw # 0 THEN faq[kw].content ELSE << >>
         IN  IF found_answer # << >>
             THEN [status |-> "success", answer |-> found_answer, source |-> FAQ_SOURCE]
             ELSE [status |-> "not_found", answer |-> FAQ_NOT_FOUND, source |-> FAQ_SOURCE]

(* ----------------------- FAQ document at startup ----------------------- *)
\* load_pdf_content_and_extract_text: the text the document yields; a missing file
\* leaves RAW_PDF_TEXT_CONTENT at its initial "", an exception sets it to ""
RECURSIVE PagesText(_, _)
PagesText(pages, page_num) ==
    IF page_num > Len(pages) THEN << >>
    ELSE (IF pages[page_num] # << >> THEN strip(pages[page_num]) \o <<"\n">> ELSE << >>)
         \o PagesText(pages, page_num + 1)

\* a loader that keeps the text extracted before the exception
load_pdf_content_KeepsPartial(doc) ==
    IF doc.kind = "missing" THEN << >> ELSE PagesText(doc.pages, 1)

load_pdf_content_and_extract_text(doc) ==
    IF doc.kind = "pages" THEN PagesText(doc.pages, 1) ELSE << >>

\* the character class [A-Za-z\s] of heading_pattern
InHeadingClass(c) == IsLetter(c) \/ IsSpace(c)

\* the first position after the run of class characters starting at s
RECURSIVE RunEnd(_, _)
RunEnd(text, s) ==
    IF s <= Len(text) /\ InHeadingClass(text[s]) THEN RunEnd(text, s + 1) ELSE s

\* heading_pattern.finditer(text) from position i (1-based): a non-empty run of
\* class characters followed by ":"; spans are Python's (start, end)
RECURSIVE FindHeadings(_, _)
FindHeadings(text, i) ==
    IF i > Len(text) THEN << >>
    ELSE LET k == RunEnd(text, i)
         IN  IF k > i /\ k <= Len(text) /\ text[k] = ":"
             THEN << [heading |-> lower(strip(SubSeq(text, i, k - 1))), span |-> <<i - 1, k>>] >>
                  \o FindHeadings(text, k + 1)
             ELSE FindHeadings(text, i + 1)

END_OF_DOCUMENT == <<"END_OF_DOCUMENT">>

headings_with_spans(text) ==
    LET found == FindHeadings(text, 1)
    IN  IF found # << >>
        THEN Append(found, [heading |-> END_OF_DOCUMENT, span |-> <<Len(text), Len(text)>>])
        ELSE found

\* parsed_data[key] = content : a key already present keeps its place
DictSet(d, key, content) ==
    IF \E i \in DOMAIN d : d[i].key = key
    THEN [i \in DOMAIN d |-> IF d[i].key = key THEN [key |-> key, content |-> content] ELSE d[i]]
    ELSE Append(d, [key |-> key, content |-> content])

\* del parsed_data[key] if present
DictDel(d, key) == SelectSeq(d, LAMBDA e : e.key # key)

\* a section that runs up to the end of the next heading
SectionContent_ThroughHeading(text, hs, i) ==
    strip(CollapseFrom(strip(Slice(text, hs[i].span[2], hs[i + 1].span[2])), 1))

\* the text between the end of heading i and the start of heading i + 1, normalised
SectionContent(text, hs, i) ==
    strip(CollapseFrom(strip(Slice(text, hs[i].span[2], hs[i + 1].span[1])), 1))

\* the loop of lines 142-157 from heading i on
RECURSIVE ParseSections(_, _, _, _)
ParseSections(text, hs, i, parsed_data) ==
    IF i > Len(hs) - 1 THEN parsed_data
    ELSE LET current_heading_text == hs[i].heading
             cleaned_content == SectionContent(text, hs, i)
         IN  IF current_heading_text # << >> /\ cleaned_content # << >>
             THEN ParseSections(text, hs, i + 1,
                                DictSet(parsed_data, current_heading_text, cleaned_content))
             ELSE ParseSections(text, hs, i + 1, parsed_data)

FAQS_APOSTROPHE == <<"f", "a", "q", "'", "s">>

FAQS == <<"f", "a", "q", "s">>

parse_faq_pdf_content_into_dictionary(text) ==
    IF text = << >> THEN << >>
    ELSE DictDel(DictDel(ParseSections(text, headings_with_spans(text), 1, << >>),
                         FAQS_APOSTROPHE), FAQS)

(* ------------------------- tool registry ------------------------------- *)
PRODUCT_TOOL == <<"get_product_details">>

POSTS_TOOL == <<"get_jsonplaceholder_posts">>

FAQ_TOOL == <<"get_answers_from_pdf">>

\* the names the dispatcher knows
AVAILABLE_TOOLS == {PRODUCT_TOOL, POSTS_TOOL, FAQ_TOOL}

\* the declarations sent to the model: name, parameter names, required parameters
TOOL_DEFINITIONS ==
    << [name |-> PRODUCT_TOOL, properties |-> {"product_id"}, required |-> {"product_id"}],
       [name |-> POSTS_TOOL, properties |-> {"limit"}, required |-> {}],
       [name |-> FAQ_TOOL, properties |-> {"query"}, required |-> {"query"}] >>

\* tool_function(**tool_args): keyword binding against the Python signature, then the call.
\* net is the answer of the external posts service, used by the posts tool only.
CallTool(tool_name, tool_args, net, faq) ==
    IF tool_name = PRODUCT_TOOL
    THEN (IF DOMAIN tool_args = {"product_id"}
          THEN get_product_details(tool_args.product_id)
          ELSE Raised(OtherExc))
    ELSE IF tool_name = POSTS_TOOL
    THEN (IF DOMAIN tool_args = {} THEN get_jsonplaceholder_posts(1, net)
          ELSE IF DOMAIN tool_args = {"limit"} THEN get_jsonplaceholder_posts(tool_args.limit, net)
          ELSE Raised(OtherExc))
    ELSE (IF DOMAIN tool_args = {"query"}
          THEN Returned(get_answers_from_pdf(tool_args.query, faq))
          ELSE Raised(OtherExc))

(* ------------------------- conversation turns -------------------------- *)
UserTurn(m) == [role |-> "user", parts |-> <<[text |-> m]>>]

ModelTextTurn(t) == [role |-> "model", parts |-> <<[text |-> t]>>]

ToolCallTurn(fc) == [role |-> "model", parts |-> <<[functionCall |-> fc]>>]

ToolResponseTurn(name, out) ==
    [role |-> "function",
     parts |-> <<[functionResponse |-> [name |-> name, response |-> out]]>>]

\* the slice taken with MAX_HISTORY_TURNS turns instead of MAX_HISTORY_TURNS exchanges
Window_Half(h) ==
    LET n == MAX_HISTORY_TURNS
        start == IF Len(h) > n THEN Len(h) - n ELSE 0
    IN  [i \in 1..(Len(h) - start) |-> h[start + i]]

\* conversation_history[-MAX_HISTORY_TURNS * 2:]
Window(h) ==
    LET n == MAX_HISTORY_TURNS * 2
        start == IF Len(h) > n THEN Len(h) - n ELSE 0
    IN  [i \in 1..(Len(h) - start) |-> h[start + i]]

(* --------------------------- reply handling ---------------------------- *)
SORRY_INITIAL == <<"I'm sorry, I couldn't understand the AI's initial response.">>

SORRY_DIRECT == <<"I'm sorry, I couldn't generate a direct response.">>

SORRY_AFTER_TOOL == <<"I'm sorry, I couldn't generate a response after using the tool.">>

UnknownToolText(tool_name) ==
    <<"I tried to use a tool called '">> \o tool_name \o <<"', but it's not available.">>

\* truthiness of a tagged JSON scalar
TruthyScalar(v) == IF v.type = "str" THEN v.val # << >> ELSE v.val # <<"0">>

\* part.get("text") is truthy
HasText(part) == "text" \in DOMAIN part /\ TruthyScalar(part.text)

\* for part in parts: if part.get("text"): llm_text += part["text"]
\* (str += non-str raises TypeError)
RECURSIVE JoinTexts(_, _, _)
JoinTexts(parts, i, acc) ==
    IF i > Len(parts) THEN Returned(acc)
    ELSE IF HasText(parts[i])
         THEN (IF parts[i].text.type = "str"
               THEN JoinTexts(parts, i + 1, acc \o parts[i].text.val)
               ELSE Raised(OtherExc))
         ELSE JoinTexts(parts, i + 1, acc)

\* the "if not llm_text" substitution left out
OrElse_Keep(text, apology) == text

\* llm_text or the apology of the branch
OrElse(text, apology) == IF text = << >> THEN apology ELSE text

\* the reply has candidates[0].content.parts, all truthy
HasParts(data) ==
    /\ Truthy(data)
    /\ Has(data, "candidates")
    /\ Has(data.candidates[1], "content")
    /\ Has(data.candidates[1].content, "parts")

\* the direct-text branch of the first reply
DirectText(parts) ==
    LET first_part == parts[1]
    IN  IF "text" \in DOMAIN first_part /\ first_part.text.type = "str"
        THEN Returned(OrElse(first_part.text.val, SORRY_DIRECT))
        ELSE LET j == JoinTexts(parts, 1, << >>)
             IN  IF j.raised THEN j ELSE Returned(OrElse(j.value, SORRY_DIRECT))

\* a reply without parts treated as a fault
MalformedInitial_Raises == [next |-> "raise", exc |-> OtherExc, function_call |-> EmptyDict]

\* lines 436-437: the outcome for a reply without candidates, content or parts
MalformedInitial == [next |-> "text", llm_text |-> SORRY_INITIAL]

\* what chat() does with the decoded first reply:
\*   [next |-> "tool", function_call]   a registered tool is to be invoked
\*   [next |-> "text", llm_text]        the final text is known
\*   [next |-> "raise", exc]            an exception leaves the try block
\* (function_call is the local variable as far as it was assigned)
ParseInitial(data) ==
    IF ~ HasParts(data) THEN MalformedInitial
    ELSE LET parts == data.candidates[1].content.parts
             first_part == parts[1]
         IN  IF Has(first_part, "functionCall")
             THEN LET function_call == first_part.functionCall
                  IN  IF ~ ({"name", "args"} \subseteq DOMAIN function_call)
                      THEN [next |-> "raise", exc |-> OtherExc, function_call |-> function_call]
                      ELSE IF function_call.name \in AVAILABLE_TOOLS
                      THEN [next |-> "tool", function_call |-> function_call]
                      ELSE [next |-> "text", llm_text |-> UnknownToolText(function_call.name)]
             ELSE LET d == DirectText(parts)
                  IN  IF d.raised
                      THEN [next |-> "raise", exc |-> d.exc, function_call |-> EmptyDict]
                      ELSE [next |-> "text", llm_text |-> d.value]

\* the second reply read like a direct reply: the first part only
ParseSecond_FirstPart(data) ==
    LET j == IF HasParts(data)
             THEN JoinTexts(<<data.candidates[1].content.parts[1]>>, 1, << >>)
             ELSE Returned(<< >>)
    IN  IF j.raised THEN j ELSE Returned(OrElse(j.value, SORRY_AFTER_TOOL))

\* what chat() does with the decoded second reply
ParseSecond(data) ==
    LET j == IF /\ Truthy(data)
                /\ Has(data, "candidates")
                /\ Has(data.candidates[1], "content")
                /\ Has(data.candidates[1].content, "parts")
             THEN JoinTexts(data.candidates[1].content.parts, 1, << >>)
             ELSE Returned(<< >>)
    IN  IF j.raised THEN j ELSE Returned(OrElse(j.value, SORRY_AFTER_TOOL))

\* the except clauses of chat(), in their order
ErrorResponse(exc) ==
    IF exc.req THEN [status |-> 500, error |-> <<"Failed to communicate with the AI model.">>]
    ELSE IF exc.json THEN [status |-> 500, error |-> <<"Invalid response from AI model.">>]
    ELSE [status |-> 500, error |-> <<"An internal server error occurred.">>]

(* ------------------------------ inputs --------------------------------- *)
JStr(v) == [type |-> "str", val |-> v]

JInt(v) == [type |-> "int", val |-> v]

\* request.json.get("message"): << >> stands for a missing or empty message
UserMessages == { << >>, <<"h", "i">> }

\* content parts other than a tool-invocation request
TextParts ==
    { EmptyDict, [text |-> JStr(<< >>)], [text |-> JStr(<<"a">>)], [text |-> JStr(<<"b">>)],
      [text |-> JInt(<<"5">>)] }

\* the functionCall objects the model may send
FunctionCalls ==
    { [name |-> PRODUCT_TOOL, args |-> [product_id |-> <<"p", "1">>]],
      [name |-> PRODUCT_TOOL, args |-> [product_id |-> <<"p", "9">>]],
      [name |-> PRODUCT_TOOL, args |-> EmptyDict],
      [name |-> POSTS_TOOL, args |-> EmptyDict],
      [name |-> POSTS_TOOL, args |-> [limit |-> 2]],
      [name |-> POSTS_TOOL],
      [name |-> FAQ_TOOL, args |-> [query |-> <<"A">>]],
      [name |-> FAQ_TOOL, args |-> [query |-> <<"z">>]],
      [name |-> <<"X">>, args |-> EmptyDict],
      [name |-> <<"X">>],
      [args |-> EmptyDict],
      EmptyDict }

PartSeqs(S) == UNION { [1..n -> S] : n \in 1..MaxParts }

Body(parts) == [candidates |-> <<[content |-> [parts |-> parts]]>>]

\* decoded replies lacking candidates, content or parts
PartlessBodies ==
    { EmptyDict,
      [candidates |-> << >>],
      [candidates |-> <<EmptyDict>>],
      [candidates |-> <<[content |-> EmptyDict]>>],
      [candidates |-> <<[content |-> [parts |-> << >>]]>>] }

\* outcomes of requests.post(...), raise_for_status() and .json() that are not a decoded body
FailedReplies ==
    { [kind |-> "transport"],
      [kind |-> "undecodable", exc |-> RequestsJSONDecodeExc],
      [kind |-> "undecodable", exc |-> StdJSONDecodeExc] }

JsonReply(body) == [kind |-> "json", body |-> body]

InitialReplies ==
    FailedReplies
    \cup { JsonReply(b) : b \in PartlessBodies }
    \cup { JsonReply(Body(ps)) : ps \in PartSeqs(TextParts) }
    \cup { JsonReply(Body(<<[functionCall |-> fc]>>)) : fc \in FunctionCalls }

SecondReplies ==
    FailedReplies
    \cup { JsonReply(b) : b \in PartlessBodies }
    \cup { JsonReply(Body(ps)) : ps \in PartSeqs(TextParts) }

\* the log left by k earlier plain exchanges
RECURSIVE PriorLog(_)
PriorLog(k) ==
    IF k = 0 THEN << >>
    ELSE PriorLog(k - 1) \o << UserTurn([j \in 1..k |-> "h"]),
                               ModelTextTurn([j \in 1..k |-> "a"]) >>

\* the file files/faq.pdf as the loader finds it: absent, unreadable after some
\* pages, or the texts of its pages
Missing == [kind |-> "missing"]

Unreadable(pages) == [kind |-> "unreadable", pages |-> pages]

Pages(pages) == [kind |-> "pages", pages |-> pages]

\* page texts: a letter, a capital, a blank, the colon and a full stop
DocChars == {"a", "B", " ", ":", "."}

Texts(n) == UNION { [1..k -> DocChars] : k \in 0..n }

\* every one-page document up to MaxTextLen, and short documents of two pages
PageSeqs ==
    { << >> } \cup { <<t>> : t \in Texts(MaxTextLen) }
              \cup { <<t, u>> : t \in Texts(MaxTextLen \div 3), u \in Texts(MaxTextLen \div 3) }

\* longer documents: a heading of two words over a section with runs of blanks
\* and newlines, a denylisted heading, a repeated heading, a section over two pages
SampleDocuments ==
    { Pages(<< <<"a", " ", "b", ":", "\n", " ", "p", " ", " ", "\n", " ", "q", ".", "\n", "B", ":", " ", " ", "s", ".">> >>),
      Pages(<< <<"f", "a", "q", "s", ":", " ", "q", ".", "\n", "a", "b", ":", " ", "p", ".">> >>),
      Pages(<< <<"a", ":", " ", "p", ".", "\n", "a", ":", " ", "q", ".", "\n", "b", ":", " ", "s", ".">> >>),
      Pages(<< <<"a", ":", " ", "p">>, <<"q", ".", "\n", "B", ":", " ", "s">> >>) }

Documents ==
    { Missing } \cup { Pages(ps) : ps \in PageSeqs } \cup SampleDocuments
                \cup { Unreadable(<<t>>) : t \in Texts(MaxTextLen \div 2) }

\* the questions put to the mapping built from these documents
StartupQueries == { << >>, <<"a">>, <<"B">>, <<".">> }

\* FAQ mappings with headings that contain one another and contents with long words
FaqKeys == { <<"a", "b">>, <<"a", "b", "b">>, <<"b", "a">> }

FaqContents == { <<"P", "q", "q", "s", "p", ".">>, <<"s", ".">> }

Mappings ==
    { m \in UNION { [1..n -> [key : FaqKeys, content : FaqContents]] : n \in 1..MaxEntries } :
        \A i, j \in DOMAIN m : m[i].key = m[j].key => i = j }

\* a page on which the mapping m is written, one "heading: content" line per entry
RECURSIVE Render(_, _)
Render(m, i) ==
    IF i > Len(m) THEN << >>
    ELSE m[i].key \o <<":", " ">> \o m[i].content \o <<"\n">> \o Render(m, i + 1)

\* the questions put to these mappings
Queries ==
    { << >>, <<"b">>, <<"a", "b">>, <<"A", "B">>, <<"a", "b", "b">>, <<"a", "b", "a">>,
      <<"q">>, <<"p", "q", "q", "s">>, <<"p", "q", "q", "s", "p">>, <<"P", "Q", "Q", "S", "P">>,
      <<"s", " ", "p", "q", "q", "s", "p">>, <<"a", "b", " ", "p", "q", "q", "s", "p">> }

\* the documents the server is started on when it serves chat requests
StartupDocuments == { Missing, Pages(<< <<"a", "b", ":", "c">> >>) }

\* FAQ_DATA as built at startup: empty when the document is unavailable
StartupFaqs ==
    { parse_faq_pdf_content_into_dictionary(load_pdf_content_and_extract_text(d)) :
        d \in StartupDocuments }

(* ------------------------------- state --------------------------------- *)
ReqIds == 1..NumThreads

VARIABLES
    conversation_history,      \* the shared log
    owner,                     \* owner[i]: the request that appended turn i, 0 for earlier turns
    document,                  \* the FAQ file on disk
    RAW_PDF_TEXT_CONTENT,
    FAQ_DATA,
    startup,                   \* position of the module's startup code
    query,                     \* the last question put to get_answers_from_pdf
    answer,                    \* and what it returned
    events,                    \* events[r]: what request r has done so far, in order
    pc,                        \* position of each request in chat()
    user_message,
    before,                    \* the log as the request found it
    payload_initial_call,
    response_initial,
    function_call,
    tool_output,
    payload_second_call,
    response_second,
    llm_text,
    response                   \* what chat() returns

vars == << conversation_history, owner, document, RAW_PDF_TEXT_CONTENT, FAQ_DATA, startup,
           query, answer, events, pc, user_message, before,
           payload_initial_call, response_initial, function_call, tool_output,
           payload_second_call, response_second, llm_text, response >>

\* what the startup code and the FAQ tool work on, FAQ_DATA apart
faqVars == << document, RAW_PDF_TEXT_CONTENT, startup, query, answer >>

\* what chat() works on
chatVars == << conversation_history, owner, events, pc, user_message, before,
               payload_initial_call, response_initial, function_call, tool_output,
               payload_second_call, response_second, llm_text, response >>

NoReply == [kind |-> "none"]

NoResponse == [status |-> 0]

\* no request has arrived
Idle ==
    /\ owner = [i \in DOMAIN conversation_history |-> 0]
    /\ events = [r \in ReqIds |-> << >>]
    /\ query = << >>
    /\ answer = EmptyDict
    /\ pc = [r \in ReqIds |-> "idle"]
    /\ user_message = [r \in ReqIds |-> << >>]
    /\ before = [r \in ReqIds |-> << >>]
    /\ payload_initial_call = [r \in ReqIds |-> EmptyDict]
    /\ response_initial = [r \in ReqIds |-> NoReply]
    /\ function_call = [r \in ReqIds |-> EmptyDict]
    /\ tool_output = [r \in ReqIds |-> EmptyDict]
    /\ payload_second_call = [r \in ReqIds |-> EmptyDict]
    /\ response_second = [r \in ReqIds |-> NoReply]
    /\ llm_text = [r \in ReqIds |-> << >>]
    /\ response = [r \in ReqIds |-> NoResponse]

\* the server has started on one of the startup documents; earlier exchanges left a log
Init ==
    /\ document \in StartupDocuments
    /\ RAW_PDF_TEXT_CONTENT = load_pdf_content_and_extract_text(document)
    /\ FAQ_DATA = parse_faq_pdf_content_into_dictionary(RAW_PDF_TEXT_CONTENT)
    /\ startup = "ready"
    /\ conversation_history \in { PriorLog(k) : k \in 0..MaxPrior }
    /\ Idle

(* ------------------------------ actions -------------------------------- *)
\* conversation_history.append(turn) by request r
AppendTurn(r, turn) ==
    /\ conversation_history' = Append(conversation_history, turn)
    /\ owner' = Append(owner, r)

\* request r does e
Event(r, e) == events' = [events EXCEPT ![r] = Append(@, e)]

\* an except clause that also writes its message to the log
Fail_LogsError(r, exc) ==
    /\ response' = [response EXCEPT ![r] = ErrorResponse(exc)]
    /\ pc' = [pc EXCEPT ![r] = "respond"]
    /\ AppendTurn(r, ModelTextTurn(ErrorResponse(exc).error))

\* an except clause that sends the request back to its first model call
Fail_Retries(r, exc) ==
    /\ response' = [response EXCEPT ![r] = ErrorResponse(exc)]
    /\ pc' = [pc EXCEPT ![r] = "first_call"]
    /\ UNCHANGED << conversation_history, owner >>

\* lines 444-452: an exception reaches the except clauses; the log is left as it is
Fail(r, exc) ==
    /\ response' = [response EXCEPT ![r] = ErrorResponse(exc)]
    /\ pc' = [pc EXCEPT ![r] = "respond"]
    /\ UNCHANGED << conversation_history, owner >>

\* lines 313-320: read the message, reject an empty one, append the user turn
Start(r, m) ==
    /\ pc[r] = "idle"
    /\ user_message' = [user_message EXCEPT ![r] = m]
    /\ before' = [before EXCEPT ![r] = conversation_history]
    /\ IF m = << >>
       THEN /\ response' = [response EXCEPT ![r] =
                              [status |-> 400, error |-> <<"No message provided">>]]
            /\ pc' = [pc EXCEPT ![r] = "respond"]
            /\ UNCHANGED << conversation_history, owner, events >>
       ELSE /\ AppendTurn(r, UserTurn(m))
            /\ Event(r, "append_user")
            /\ pc' = [pc EXCEPT ![r] = "first_call"]
            /\ UNCHANGED response
    /\ UNCHANGED faqVars
    /\ UNCHANGED << FAQ_DATA, payload_initial_call, response_initial, function_call,
                    tool_output, payload_second_call, response_second, llm_text >>

\* lines 323-437: window, first model call, decoding and the branch on the reply
FirstCall(r, reply) ==
    /\ pc[r] = "first_call"
    /\ payload_initial_call' = [payload_initial_call EXCEPT ![r] =
           [contents |-> Window(conversation_history),
            tools |-> <<[function_declarations |-> TOOL_DEFINITIONS]>>]]
    /\ response_initial' = [response_initial EXCEPT ![r] = reply]
    /\ Event(r, IF "tools" \in DOMAIN payload_initial_call'[r]
                THEN "model_call_with_tools" ELSE "model_call_without_tools")
    /\ UNCHANGED faqVars
    /\ IF reply.kind = "transport"
       THEN Fail(r, RequestExc) /\ UNCHANGED << function_call, llm_text >>
       ELSE IF reply.kind = "undecodable"
       THEN Fail(r, reply.exc) /\ UNCHANGED << function_call, llm_text >>
       ELSE LET p == ParseInitial(reply.body)
            IN  IF p.next = "raise"
                THEN /\ Fail(r, p.exc)
                     /\ function_call' = [function_call EXCEPT ![r] = p.function_call]
                     /\ UNCHANGED llm_text
                ELSE IF p.next = "tool"
                THEN /\ function_call' = [function_call EXCEPT ![r] = p.function_call]
                     /\ pc' = [pc EXCEPT ![r] = "invoke_tool"]
                     /\ UNCHANGED << llm_text, response, conversation_history, owner >>
                ELSE /\ llm_text' = [llm_text EXCEPT ![r] = p.llm_text]
                     /\ pc' = [pc EXCEPT ![r] = "finalize"]
                     /\ UNCHANGED << function_call, response, conversation_history, owner >>
    /\ UNCHANGED << FAQ_DATA, user_message, before,
                    tool_output, payload_second_call, response_second >>

\* lines 367-372: run the registered tool on the model's arguments
InvokeTool(r, net) ==
    /\ pc[r] = "invoke_tool"
    /\ Event(r, "tool_invocation")
    /\ UNCHANGED faqVars
    /\ LET out == CallTool(function_call[r].name, function_call[r].args, net, FAQ_DATA)
       IN  IF out.raised
           THEN Fail(r, out.exc) /\ UNCHANGED tool_output
           ELSE /\ tool_output' = [tool_output EXCEPT ![r] = out.value]
                /\ pc' = [pc EXCEPT ![r] = "append_call"]
                /\ UNCHANGED << response, conversation_history, owner >>
    /\ UNCHANGED << FAQ_DATA, user_message, before,
                    payload_initial_call, response_initial, function_call,
                    payload_second_call, response_second, llm_text >>

\* lines 376-378: append the model's tool call
AppendCall(r) ==
    /\ pc[r] = "append_call"
    /\ AppendTurn(r, ToolCallTurn(function_call[r]))
    /\ Event(r, "append_tool_call")
    /\ UNCHANGED faqVars
    /\ pc' = [pc EXCEPT ![r] = "append_response"]
    /\ UNCHANGED << FAQ_DATA, user_message, before, payload_initial_call, response_initial,
                    function_call, tool_output, payload_second_call, response_second,
                    llm_text, response >>

\* lines 379-391: append the tool's result
AppendResponse(r) ==
    /\ pc[r] = "append_response"
    /\ AppendTurn(r, ToolResponseTurn(function_call[r].name, tool_output[r]))
    /\ Event(r, "append_tool_result")
    /\ UNCHANGED faqVars
    /\ pc' = [pc EXCEPT ![r] = "second_call"]
    /\ UNCHANGED << FAQ_DATA, user_message, before, payload_initial_call, response_initial,
                    function_call, tool_output, payload_second_call, response_second,
                    llm_text, response >>

\* lines 393-417: window, second model call, decoding, final text
SecondCall(r, reply) ==
    /\ pc[r] = "second_call"
    /\ payload_second_call' = [payload_second_call EXCEPT ![r] =
           [contents |-> Window(conversation_history)]]
    /\ response_second' = [response_second EXCEPT ![r] = reply]
    /\ Event(r, IF "tools" \in DOMAIN payload_second_call'[r]
                THEN "model_call_with_tools" ELSE "model_call_without_tools")
    /\ UNCHANGED faqVars
    /\ IF reply.kind = "transport"
       THEN Fail(r, RequestExc) /\ UNCHANGED llm_text
       ELSE IF reply.kind = "undecodable"
       THEN Fail(r, reply.exc) /\ UNCHANGED llm_text
       ELSE LET p == ParseSecond(reply.body)
            IN  IF p.raised
                THEN Fail(r, p.exc) /\ UNCHANGED llm_text
                ELSE /\ llm_text' = [llm_text EXCEPT ![r] = p.value]
                     /\ pc' = [pc EXCEPT ![r] = "finalize"]
                     /\ UNCHANGED << response, conversation_history, owner >>
    /\ UNCHANGED << FAQ_DATA, user_message, before,
                    payload_initial_call, response_initial, function_call, tool_output >>

\* a successful return that leaves the final text out of the log
Finalize_NoAppend(r) ==
    /\ pc[r] = "finalize"
    /\ Event(r, "append_final_text")
    /\ UNCHANGED faqVars
    /\ response' = [response EXCEPT ![r] = [status |-> 200, response |-> llm_text[r]]]
    /\ pc' = [pc EXCEPT ![r] = "respond"]
    /\ UNCHANGED << conversation_history, owner, FAQ_DATA, user_message, before,
                    payload_initial_call, response_initial, function_call, tool_output,
                    payload_second_call, response_second, llm_text >>

\* lines 439-442: append the final model text and build the response
Finalize(r) ==
    /\ pc[r] = "finalize"
    /\ AppendTurn(r, ModelTextTurn(llm_text[r]))
    /\ Event(r, "append_final_text")
    /\ UNCHANGED faqVars
    /\ response' = [response EXCEPT ![r] = [status |-> 200, response |-> llm_text[r]]]
    /\ pc' = [pc EXCEPT ![r] = "respond"]
    /\ UNCHANGED << FAQ_DATA, user_message, before, payload_initial_call, response_initial,
                    function_call, tool_output, payload_second_call, response_second,
                    llm_text >>

\* chat() returns: the response goes to the client and the locals are gone
Return(r) ==
    /\ pc[r] = "respond"
    /\ pc' = [pc EXCEPT ![r] = "done"]
    /\ user_message' = [user_message EXCEPT ![r] = << >>]
    /\ before' = [before EXCEPT ![r] = << >>]
    /\ payload_initial_call' = [payload_initial_call EXCEPT ![r] = EmptyDict]
    /\ response_initial' = [response_initial EXCEPT ![r] = NoReply]
    /\ function_call' = [function_call EXCEPT ![r] = EmptyDict]
    /\ tool_output' = [tool_output EXCEPT ![r] = EmptyDict]
    /\ payload_second_call' = [payload_second_call EXCEPT ![r] = EmptyDict]
    /\ response_second' = [response_second EXCEPT ![r] = NoReply]
    /\ llm_text' = [llm_text EXCEPT ![r] = << >>]
    /\ response' = [response EXCEPT ![r] = NoResponse]
    /\ events' = [events EXCEPT ![r] = << >>]
    /\ UNCHANGED faqVars
    /\ UNCHANGED << conversation_history, owner, FAQ_DATA >>

\* line 175: load_pdf_content_and_extract_text()
LoadPdf ==
    /\ startup = "load"
    /\ RAW_PDF_TEXT_CONTENT' = load_pdf_content_and_extract_text(document)
    /\ startup' = "parse"
    /\ UNCHANGED << document, FAQ_DATA, query, answer >>
    /\ UNCHANGED chatVars

\* line 176: parse_faq_pdf_content_into_dictionary()
ParseFaq ==
    /\ startup = "parse"
    /\ FAQ_DATA' = parse_faq_pdf_content_into_dictionary(RAW_PDF_TEXT_CONTENT)
    /\ startup' = "ready"
    /\ UNCHANGED << document, RAW_PDF_TEXT_CONTENT, query, answer >>
    /\ UNCHANGED chatVars

\* a call get_answers_from_pdf(q) on the mapping built at startup
Ask(q) ==
    /\ startup = "ready"
    /\ query' = q
    /\ answer' = get_answers_from_pdf(q, FAQ_DATA)
    /\ UNCHANGED << document, RAW_PDF_TEXT_CONTENT, FAQ_DATA, startup >>
    /\ UNCHANGED chatVars

(* --------------------------- specifications ---------------------------- *)
\* Spec: one request, with every reply shape, handled on top of the log that
\* earlier exchanges left
Served == {1}

Next ==
    \E r \in Served :
        \/ \E m \in UserMessages : Start(r, m)
        \/ \E reply \in InitialReplies : FirstCall(r, reply)
        \/ \E net \in PostsReplies : InvokeTool(r, net)
        \/ AppendCall(r)
        \/ AppendResponse(r)
        \/ \E reply \in SecondReplies : SecondCall(r, reply)
        \/ Finalize(r)
        \/ Return(r)

Spec == Init /\ [][Next]_vars

\* ConcSpec: the requests are handled by concurrent threads of the server; every
\* access to the shared log is a step of its own, with a few reply shapes
ConcInitialReplies ==
    { JsonReply(Body(<<[text |-> JStr(<<"a">>)]>>)),
      JsonReply(Body(<<[functionCall |->
                          [name |-> PRODUCT_TOOL, args |-> [product_id |-> <<"p", "1">>]]]>>)) }

ConcSecondReplies ==
    { JsonReply(Body(<<[text |-> JStr(<<"b">>)]>>)) }

ConcInit ==
    /\ Init
    /\ conversation_history = << >>
    /\ document = Missing

\* requests are numbered in their order of arrival
Arrived(r) == \A q \in ReqIds : q < r => pc[q] # "idle"

ConcNext ==
    \E r \in 1..NumThreads :
        \/ Arrived(r) /\ \E m \in UserMessages \ {<< >>} : Start(r, m)
        \/ \E reply \in ConcInitialReplies : FirstCall(r, reply)
        \/ \E net \in PostsReplies : InvokeTool(r, net)
        \/ AppendCall(r)
        \/ AppendResponse(r)
        \/ \E reply \in ConcSecondReplies : SecondCall(r, reply)
        \/ Finalize(r)
        \/ Return(r)

ConcSpec == ConcInit /\ [][ConcNext]_vars

\* StartupSpec: the module's startup code on every small document, then questions
StartupInit ==
    /\ document \in Documents
    /\ RAW_PDF_TEXT_CONTENT = << >>
    /\ FAQ_DATA = << >>
    /\ startup = "load"
    /\ conversation_history = << >>
    /\ Idle

StartupNext ==
    \/ LoadPdf
    \/ ParseFaq
    \/ \E q \in StartupQueries : Ask(q)

StartupSpec == StartupInit /\ [][StartupNext]_vars

\* FaqSpec: get_answers_from_pdf on the mappings built from documents with a
\* line per entry
FaqInit ==
    /\ document \in { Pages(<<Render(m, 1)>>) : m \in Mappings }
    /\ RAW_PDF_TEXT_CONTENT = load_pdf_content_and_extract_text(document)
    /\ FAQ_DATA = parse_faq_pdf_content_into_dictionary(RAW_PDF_TEXT_CONTENT)
    /\ startup = "ready"
    /\ conversation_history = << >>
    /\ Idle

FaqNext == \E q \in Queries : Ask(q)

FaqSpec == FaqInit /\ [][FaqNext]_vars

\* SeqSpec: the requests are handled one at a time, each on the log the earlier
\* ones left, with a few reply shapes and the failure of either model call
SeqInitialReplies == ConcInitialReplies \cup { [kind |-> "transport"] }

SeqSecondReplies == ConcSecondReplies \cup { [kind |-> "transport"] }

\* no request is being handled
Quiet == \A q \in ReqIds : pc[q] \in {"idle", "done"}

SeqNext ==
    \E r \in ReqIds :
        \/ Arrived(r) /\ Quiet /\ \E m \in UserMessages : Start(r, m)
        \/ \E reply \in SeqInitialReplies : FirstCall(r, reply)
        \/ \E net \in PostsReplies : InvokeTool(r, net)
        \/ AppendCall(r)
        \/ AppendResponse(r)
        \/ \E reply \in SeqSecondReplies : SecondCall(r, reply)
        \/ Finalize(r)
        \/ Return(r)

SeqSpec == Init /\ [][SeqNext]_vars

(* ------------------------ vocabulary of the claims --------------------- *)
Min(a, b) == IF a < b THEN a ELSE b

\* the turns request r has appended to the log, in log order
Appended(r) ==
    LET F[i \in 0..Len(conversation_history)] ==
            IF i = 0 THEN << >>
            ELSE IF owner[i] = r THEN Append(F[i - 1], conversation_history[i])
            ELSE F[i - 1]
    IN  F[Len(conversation_history)]

\* s and t are the same sequence of turns
SameTurns(s, t) == Len(s) = Len(t) /\ \A i \in 1..Len(s) : s[i] = t[i]

\* the content parts of a decoded reply, none when a field is missing
PartsOf(reply) ==
    IF reply.body \in PartlessBodies THEN << >> ELSE reply.body.candidates[1].content.parts

\* the texts of the parts that have one, concatenated in order
RECURSIVE ConcatTexts(_)
ConcatTexts(parts) ==
    IF parts = << >> THEN << >>
    ELSE (IF "text" \in DOMAIN Head(parts) THEN Head(parts).text.val ELSE << >>)
         \o ConcatTexts(Tail(parts))

\* every text of the reply is a string
StringTexts(reply) ==
    \A i \in DOMAIN PartsOf(reply) :
        "text" \in DOMAIN PartsOf(reply)[i] => PartsOf(reply)[i].text.type = "str"

\* the first part of the first reply is a tool-invocation request
RequestsTool(r) ==
    /\ response_initial[r].kind = "json"
    /\ PartsOf(response_initial[r]) # << >>
    /\ "functionCall" \in DOMAIN PartsOf(response_initial[r])[1]
    /\ PartsOf(response_initial[r])[1].functionCall # EmptyDict

RequestedCall(r) == PartsOf(response_initial[r])[1].functionCall

\* ... and it names a registered tool
RequestsRegisteredTool(r) ==
    /\ RequestsTool(r)
    /\ "name" \in DOMAIN RequestedCall(r)
    /\ RequestedCall(r).name \in AVAILABLE_TOOLS

\* the first call, the tool and the second call of request r all succeeded: the tool
\* returned a result and the second reply was decoded, its texts being strings
RoundTrip(r) ==
    /\ pc[r] = "respond"
    /\ RequestsRegisteredTool(r)
    /\ tool_output[r] # EmptyDict
    /\ response_second[r].kind = "json"
    /\ StringTexts(response_second[r])

\* request r appended user, tool-call, tool-result and the model text t, and returned t
FourTurns(r, t) ==
    /\ SameTurns(Appended(r),
                 << UserTurn(user_message[r]),
                    ToolCallTurn(RequestedCall(r)),
                    ToolResponseTurn(RequestedCall(r).name, tool_output[r]),
                    ModelTextTurn(t) >>)
    /\ response[r] = [status |-> 200, response |-> t]

(* -------------------------------- C1 ----------------------------------- *)
\* C1 as stated: after a tool round trip whose calls all succeed the request has
\* appended exactly user, tool-call, tool-result, model text, and the returned text
\* equals the concatenation of the text parts of the second reply.
C1_AsStated ==
    \A r \in ReqIds :
        RoundTrip(r) => FourTurns(r, ConcatTexts(PartsOf(response_second[r])))

\* C1 amended: the same four turns, and the returned text equals the concatenation of
\* the text parts of the second reply when that is not empty, and the fixed
\* after-tool apology when it is empty.
C1_RoundTrip ==
    \A r \in ReqIds :
        RoundTrip(r) =>
            LET t == ConcatTexts(PartsOf(response_second[r]))
            IN  FourTurns(r, IF t = << >> THEN SORRY_AFTER_TOOL ELSE t)

C1_Witness ==
    \E r \in ReqIds :
        /\ RoundTrip(r)
        /\ Len(Appended(r)) = 4
        /\ response[r].response = <<"a", "b">>

(* -------------------------------- C2 ----------------------------------- *)
\* C2: when the first reply requests a tool name X that is not registered, the request
\* appends exactly user text and model text, the returned text contains X between the
\* words saying the tool is not available, no tool is invoked and no second model call
\* is made.
C2_UnknownTool ==
    \A r \in ReqIds :
        ( /\ pc[r] = "respond"
          /\ RequestsTool(r)
          /\ "name" \in DOMAIN RequestedCall(r)
          /\ RequestedCall(r).name \notin AVAILABLE_TOOLS )
        => LET X == RequestedCall(r).name
               t == <<"I tried to use a tool called '">> \o X \o <<"', but it's not available.">>
           IN  /\ SameTurns(Appended(r), << UserTurn(user_message[r]), ModelTextTurn(t) >>)
               /\ response[r] = [status |-> 200, response |-> t]
               /\ In(X, response[r].response)
               /\ tool_output[r] = EmptyDict
               /\ response_second[r] = NoReply

\* the same for a request that carries its args field
C2_UnknownToolWithArgs ==
    \A r \in ReqIds :
        ( /\ pc[r] = "respond"
          /\ RequestsTool(r)
          /\ {"name", "args"} \subseteq DOMAIN RequestedCall(r)
          /\ RequestedCall(r).name \notin AVAILABLE_TOOLS )
        => LET X == RequestedCall(r).name
               t == <<"I tried to use a tool called '">> \o X \o <<"', but it's not available.">>
           IN  /\ SameTurns(Appended(r), << UserTurn(user_message[r]), ModelTextTurn(t) >>)
               /\ response[r] = [status |-> 200, response |-> t]
               /\ In(X, response[r].response)
               /\ tool_output[r] = EmptyDict
               /\ response_second[r] = NoReply

(* -------------------------------- C3 ----------------------------------- *)
\* w is the last min(Len(h), 10) turns of h, in their order
IsRecentSuffix(w, h) ==
    /\ Len(w) = Min(Len(h), 10)
    /\ \A i \in 1..Len(w) : w[i] = h[Len(h) - Len(w) + i]

\* C3: whenever a model call is prepared (first or second), the history it transmits is
\* exactly the last min(L, 10) turns of the log of that moment, L being its length, in
\* log order.
C3_Windowing ==
    [][ \A r \in ReqIds :
          /\ (pc[r] = "first_call" /\ pc'[r] # "first_call")
                => IsRecentSuffix(payload_initial_call'[r].contents, conversation_history)
          /\ (pc[r] = "second_call" /\ pc'[r] # "second_call")
                => IsRecentSuffix(payload_second_call'[r].contents, conversation_history)
      ]_vars

\* both calls of a request were prepared on a log of more than 10 turns
C3_Witness ==
    \E r \in ReqIds :
        /\ payload_initial_call[r] # EmptyDict
        /\ payload_second_call[r] # EmptyDict
        /\ Len(payload_initial_call[r].contents) = 10
        /\ Len(payload_second_call[r].contents) = 10
        /\ Len(before[r]) >= 10
        /\ payload_second_call[r].contents[10].role = "function"

(* -------------------------------- C4 ----------------------------------- *)
\* C4: with concurrent requests the turns appended by one request are contiguous in
\* every reachable log: no turn of another request lies between two turns of a request.
C4_NoInterleaving ==
    \A i, j \in DOMAIN owner :
        (i < j /\ owner[i] # 0 /\ owner[i] = owner[j])
            => \A k \in i..j : owner[k] = owner[i]

(* -------------------------------- C5 ----------------------------------- *)
\* the log still begins with the turns request r found in it
PriorTurnsKept(r) ==
    /\ Len(conversation_history) >= Len(before[r])
    /\ \A i \in 1..Len(before[r]) : conversation_history[i] = before[r][i]

\* C5: a request that ends in an error before its second model call has appended
\* exactly its user turn; one that ends in an error of its second model call has
\* appended exactly user, tool-call and tool-result; a failed transport or an
\* undecodable reply always ends the request in an error; no model text turn is
\* appended and the turns that were in the log before are unchanged and in place.
C5_FailureAppends ==
    \A r \in ReqIds :
        pc[r] = "respond" =>
            /\ (response_initial[r].kind \in {"transport", "undecodable"}
                    => response[r].status = 500)
            /\ (response_second[r].kind \in {"transport", "undecodable"}
                    => response[r].status = 500)
            /\ (response[r].status = 500 /\ response_second[r] = NoReply)
                    => SameTurns(Appended(r), << UserTurn(user_message[r]) >>)
            /\ (response[r].status = 500 /\ response_second[r] # NoReply)
                    => SameTurns(Appended(r),
                                 << UserTurn(user_message[r]),
                                    ToolCallTurn(RequestedCall(r)),
                                    ToolResponseTurn(RequestedCall(r).name, tool_output[r]) >>)
            /\ PriorTurnsKept(r)

\* a request whose second model call failed, on a log that held earlier turns
C5_Witness ==
    \E r \in ReqIds :
        /\ pc[r] = "respond"
        /\ response[r].status = 500
        /\ response_second[r].kind = "transport"
        /\ Len(Appended(r)) = 3
        /\ Len(before[r]) > 0

(* -------------------------------- C6 ----------------------------------- *)
\* C6: a first reply in which candidates, content or parts is absent or empty ends the
\* request with a successful response carrying the fixed "couldn't understand the AI's
\* initial response" apology, and the request appends exactly user text and that apology.
C6_PartlessReply ==
    \A r \in ReqIds :
        ( /\ pc[r] = "respond"
          /\ response_initial[r].kind = "json"
          /\ response_initial[r].body \in PartlessBodies )
        => /\ response[r] =
                [status |-> 200,
                 response |-> <<"I'm sorry, I couldn't understand the AI's initial response.">>]
           /\ SameTurns(Appended(r),
                        << UserTurn(user_message[r]),
                           ModelTextTurn(<<"I'm sorry, I couldn't understand the AI's initial response.">>) >>)

\* a reply whose only candidate has no content
C6_Witness ==
    \E r \in ReqIds :
        /\ pc[r] = "respond"
        /\ response_initial[r] = JsonReply([candidates |-> <<EmptyDict>>])
        /\ response[r].status = 200
        /\ Len(Appended(r)) = 2

(* -------------------------------- C7 ----------------------------------- *)
\* C7: a tool-invocation request whose name or args field is absent still ends the
\* request with a successful text response and a final model turn.
C7_MissingFieldTolerated ==
    \A r \in ReqIds :
        ( /\ pc[r] = "respond"
          /\ RequestsTool(r)
          /\ ~ ({"name", "args"} \subseteq DOMAIN RequestedCall(r)) )
        => /\ response[r].status = 200
           /\ Len(Appended(r)) >= 2
           /\ Appended(r)[Len(Appended(r))] = ModelTextTurn(response[r].response)

(* -------------------------------- C8 ----------------------------------- *)
\* the first part of the first reply is not a tool-invocation request
DirectReply(r) ==
    /\ pc[r] = "respond"
    /\ response_initial[r].kind = "json"
    /\ PartsOf(response_initial[r]) # << >>
    /\ ~ RequestsTool(r)
    /\ StringTexts(response_initial[r])

\* C8: for a direct reply the returned text and the appended model turn equal the
\* concatenation, in order, of the texts of all the text parts (the fixed apology
\* standing in for an empty concatenation).
C8_AllPartsJoined ==
    \A r \in ReqIds :
        DirectReply(r) =>
            LET c == ConcatTexts(PartsOf(response_initial[r]))
                t == IF c = << >> THEN SORRY_DIRECT ELSE c
            IN  /\ response[r] = [status |-> 200, response |-> t]
                /\ SameTurns(Appended(r), << UserTurn(user_message[r]), ModelTextTurn(t) >>)

(* -------------------------------- C9 ----------------------------------- *)
\* C9: every model text turn of the log and every text returned with a successful
\* response is a non-empty string.
C9_NeverEmpty ==
    /\ \A i \in DOMAIN conversation_history :
          LET turn == conversation_history[i]
          IN  (turn.role = "model" /\ "text" \in DOMAIN turn.parts[1])
                  => turn.parts[1].text # << >>
    /\ \A r \in ReqIds : response[r].status = 200 => response[r].response # << >>

\* a tool round trip whose second reply holds no text
C9_Witness ==
    \E r \in ReqIds :
        /\ pc[r] = "respond"
        /\ response_second[r].kind = "json"
        /\ PartsOf(response_second[r]) # << >>
        /\ ConcatTexts(PartsOf(response_second[r])) = << >>
        /\ response[r].status = 200
        /\ Len(Appended(r)) = 4

(* -------------------------------- C10 ---------------------------------- *)
\* the reply asks for the catalog or the FAQ tool with the arguments of its signature
BindsLookup(r) ==
    /\ RequestsRegisteredTool(r)
    /\ "args" \in DOMAIN RequestedCall(r)
    /\ \/ RequestedCall(r).name = PRODUCT_TOOL /\ DOMAIN RequestedCall(r).args = {"product_id"}
       \/ RequestedCall(r).name = FAQ_TOOL /\ DOMAIN RequestedCall(r).args = {"query"}

\* C10: a lookup tool always hands a result back, and when a registered tool's result
\* has status error or not_found the request has appended the tool-call turn and the
\* tool-result turn carrying that result and has made the second model call; when that
\* call yields a decoded reply the request appends the final model text as fourth turn
\* and returns it with a successful response.
C10_ToolFailureIsData ==
    \A r \in ReqIds :
        pc[r] = "respond" =>
            /\ BindsLookup(r) => tool_output[r] # EmptyDict
            /\ (tool_output[r] # EmptyDict /\ tool_output[r].status \in {"error", "not_found"})
                => /\ response_second[r] # NoReply
                   /\ Len(Appended(r)) >= 3
                   /\ Appended(r)[2] = ToolCallTurn(RequestedCall(r))
                   /\ Appended(r)[3] =
                          ToolResponseTurn(RequestedCall(r).name, tool_output[r])
                   /\ (response_second[r].kind = "json" /\ StringTexts(response_second[r]))
                        => /\ response[r].status = 200
                           /\ Len(Appended(r)) = 4
                           /\ Appended(r)[4] = ModelTextTurn(response[r].response)

\* a catalog lookup of an unknown product, narrated by the model
C10_Witness ==
    \E r \in ReqIds :
        /\ pc[r] = "respond"
        /\ tool_output[r] # EmptyDict
        /\ tool_output[r].status = "not_found"
        /\ response[r] = [status |-> 200, response |-> <<"a">>]
        /\ Len(Appended(r)) = 4

(* ------------------------ vocabulary of the FAQ claims ----------------- *)
\* get_answers_from_pdf has been called and has returned
Asked == answer # EmptyDict

\* the value the mapping holds under heading h; << >> when h is not a heading
Lookup(faq, h) ==
    IF \E i \in DOMAIN faq : faq[i].key = h
    THEN faq[CHOOSE i \in DOMAIN faq : faq[i].key = h].content
    ELSE << >>

\* heading h contains the query q or is contained in it
Contains(h, q) == In(q, h) \/ In(h, q)

\* the entries of the mapping that are candidates of pass 1 for the query q
Candidates(faq, q) == { i \in DOMAIN faq : Contains(faq[i].key, q) }

\* length of the contained string
MatchLength(h, q) == IF In(q, h) THEN Len(q) ELSE Len(h)

\* the candidate of greatest match length, the first of them in iteration order
Longest(faq, q) ==
    CHOOSE i \in Candidates(faq, q) :
        \A j \in Candidates(faq, q) :
            \/ MatchLength(faq[j].key, q) < MatchLength(faq[i].key, q)
            \/ MatchLength(faq[j].key, q) = MatchLength(faq[i].key, q) /\ i <= j

(* -------------------------------- C11 ---------------------------------- *)
\* C11: a query whose lower-cased form equals a heading h of the mapping is
\* answered with status success and the content stored under h, whatever the
\* other headings and their order
C11_ExactHeading ==
    (Asked /\ \E i \in DOMAIN FAQ_DATA : FAQ_DATA[i].key = lower(query))
        => /\ answer.status = "success"
           /\ answer.answer = Lookup(FAQ_DATA, lower(query))

(* -------------------------------- C12 ---------------------------------- *)
\* C12 as stated: whenever some heading contains the lower-cased query or is
\* contained in it, the answer is the content of the candidate of greatest match
\* length, the first seen among equals
C12_AsStated ==
    (Asked /\ Candidates(FAQ_DATA, lower(query)) # {})
        => /\ answer.status = "success"
           /\ answer.answer = FAQ_DATA[Longest(FAQ_DATA, lower(query))].content

\* C12: the same for a query that is not empty
C12_LongestMatch ==
    (Asked /\ query # << >> /\ Candidates(FAQ_DATA, lower(query)) # {})
        => /\ answer.status = "success"
           /\ answer.answer = FAQ_DATA[Longest(FAQ_DATA, lower(query))].content

\* "abb" asked of the headings "ab", "abb" in this order, with different contents:
\* the later, longer match has answered
C12_Witness ==
    /\ Asked
    /\ query = <<"a", "b", "b">>
    /\ Len(FAQ_DATA) = 2
    /\ FAQ_DATA[1].key = <<"a", "b">>
    /\ FAQ_DATA[2].key = <<"a", "b", "b">>
    /\ FAQ_DATA[1].content # FAQ_DATA[2].content
    /\ answer.answer = FAQ_DATA[2].content

(* -------------------------------- C13 ---------------------------------- *)
\* some token of q longer than 4 is a substring of the content c
SharesLongToken(q, c) ==
    \E j \in DOMAIN split(q) : Len(split(q)[j]) > 4 /\ In(split(q)[j], c)

\* C13 as stated: when no heading contains the lower-cased query or is contained
\* in it and no token of the query longer than 4 is a substring of a content, the
\* result is not_found with the fixed apology
C13_AsStated ==
    ( /\ Asked
      /\ FAQ_DATA # << >>
      /\ Candidates(FAQ_DATA, lower(query)) = {}
      /\ \A i \in DOMAIN FAQ_DATA : ~ SharesLongToken(query, FAQ_DATA[i].content) )
        => answer.status = "not_found" /\ answer.answer = FAQ_NOT_FOUND

\* C13: the same with tokens and contents compared in lower case
C13_NoMatch ==
    ( /\ Asked
      /\ FAQ_DATA # << >>
      /\ Candidates(FAQ_DATA, lower(query)) = {}
      /\ \A i \in DOMAIN FAQ_DATA : ~ SharesLongToken(lower(query), lower(FAQ_DATA[i].content)) )
        => answer.status = "not_found" /\ answer.answer = FAQ_NOT_FOUND

\* "pqqs" asked where a content reads "Pqqsp.": the only shared token has length 4
C13_Witness ==
    /\ Asked
    /\ query = <<"p", "q", "q", "s">>
    /\ \E i \in DOMAIN FAQ_DATA : In(query, lower(FAQ_DATA[i].content))
    /\ answer.status = "not_found"

(* -------------------------------- C14 ---------------------------------- *)
\* loading the document has failed, or has yielded an empty text
Unavailable ==
    document.kind \in {"missing", "unreadable"} \/ RAW_PDF_TEXT_CONTENT = << >>

\* C14: when loading fails or yields an empty text, the mapping built at startup
\* is empty and every question is answered with status error
C14_Unavailable ==
    (startup = "ready" /\ Unavailable)
        => /\ FAQ_DATA = << >>
           /\ Asked => answer.status = "error" /\ answer.answer = FAQ_UNAVAILABLE

\* a document that became unreadable after a page with a section was extracted,
\* and a question answered with status error
C14_Witness ==
    /\ startup = "ready"
    /\ document = Unreadable(<< <<"a", ":", ".">> >>)
    /\ Asked
    /\ query = <<"a">>
    /\ answer.status = "error"

(* -------------------------------- C15 ---------------------------------- *)
\* the tokens of t joined by single spaces: t whitespace-collapsed and trimmed
Normalised(t) ==
    LET tokens == split(t)
        F[i \in 0..Len(tokens)] ==
            IF i = 0 THEN << >>
            ELSE IF i = 1 THEN tokens[1]
            ELSE F[i - 1] \o <<" ">> \o tokens[i]
    IN  F[Len(tokens)]

\* the headings recognised in the raw text, in order
Recognised == FindHeadings(RAW_PDF_TEXT_CONTENT, 1)

\* the normalised text between recognised heading i and the next one, or the
\* end of the text after the last heading
SectionText(i) ==
    Normalised(Slice(RAW_PDF_TEXT_CONTENT, Recognised[i].span[2],
                     IF i < Len(Recognised) THEN Recognised[i + 1].span[1]
                     ELSE Len(RAW_PDF_TEXT_CONTENT)))

Denylist == { FAQS_APOSTROPHE, FAQS }

\* heading i is followed by another recognised heading and is one the claim is about
Eligible(i) ==
    /\ i < Len(Recognised)
    /\ Recognised[i].span[2] < Recognised[i + 1].span[1]
    /\ SectionText(i) # << >>
    /\ Recognised[i].heading # << >>
    /\ Recognised[i].heading \notin Denylist

\* the heading of i occurs again later in the text, with a section that is kept
Superseded(i) ==
    \E j \in DOMAIN Recognised :
        j > i /\ Recognised[j].heading = Recognised[i].heading /\ SectionText(j) # << >>

\* C15 as stated: the mapping holds, under the heading of every eligible pair of
\* consecutive headings, exactly the normalised text between them, also when the
\* heading text occurs again elsewhere
C15_AsStated ==
    startup = "ready"
        => \A i \in DOMAIN Recognised :
               Eligible(i) => Lookup(FAQ_DATA, Recognised[i].heading) = SectionText(i)

\* C15: the same unless the heading text occurs again later with a non-empty section
C15_SectionContent ==
    startup = "ready"
        => \A i \in DOMAIN Recognised :
               (Eligible(i) /\ ~ Superseded(i))
                   => Lookup(FAQ_DATA, Recognised[i].heading) = SectionText(i)

\* a text with the heading "a" twice and a third heading: the second section of
\* "a", followed by the heading "b", is the one the mapping holds
C15_Witness ==
    /\ startup = "ready"
    /\ Len(Recognised) = 3
    /\ Recognised[1].heading = Recognised[2].heading
    /\ Eligible(1) /\ Eligible(2)
    /\ SectionText(1) # SectionText(2)
    /\ Lookup(FAQ_DATA, Recognised[2].heading) = SectionText(2)

(* -------------------------------- C17 ---------------------------------- *)
\* the contents of the candidates of pass 1
CandidateContents(faq, q) == { faq[i].content : i \in Candidates(faq, q) }

\* C17 as stated: for every query, the empty one included, a heading that
\* contains the lower-cased query or is contained in it makes the result a
\* success with the content of a pass-1 candidate
C17_AsStated ==
    (Asked /\ FAQ_DATA # << >> /\ Candidates(FAQ_DATA, lower(query)) # {})
        => /\ answer.status = "success"
           /\ answer.answer \in CandidateContents(FAQ_DATA, lower(query))

\* C17: the same for every query but the empty one
C17_Pass1First ==
    (Asked /\ FAQ_DATA # << >> /\ query # << >> /\ Candidates(FAQ_DATA, lower(query)) # {})
        => /\ answer.status = "success"
           /\ answer.answer \in CandidateContents(FAQ_DATA, lower(query))

\* "ab pqqsp" asked where "pqqsp" is a word of the first entry's content and "ab"
\* is the heading of the second: the second entry has answered
C17_Witness ==
    /\ Asked
    /\ query = <<"a", "b", " ", "p", "q", "q", "s", "p">>
    /\ Len(FAQ_DATA) = 2
    /\ FAQ_DATA[1].key = <<"a", "b", "b">>
    /\ FAQ_DATA[2].key = <<"a", "b">>
    /\ KeywordMatch(FAQ_DATA, lower(query)) = 1
    /\ FAQ_DATA[1].content # FAQ_DATA[2].content
    /\ answer.answer = FAQ_DATA[2].content

(* -------------------------------- C16 ---------------------------------- *)
\* the reply of one of request r's model calls is of the given kind
ModelReplyIs(r, kind) ==
    response_initial[r].kind = kind \/ response_second[r].kind = kind

\* C16: a request that failed on an undecodable model reply answers "Invalid
\* response from AI model.", one that failed on a transport failure answers
\* "Failed to communicate with the AI model.", and every other failed request
\* answers with the internal-error message
C16_DistinctCategories ==
    \A r \in ReqIds :
        (pc[r] = "respond" /\ response[r].status = 500)
            => response[r].error =
                   IF ModelReplyIs(r, "undecodable")
                   THEN <<"Invalid response from AI model.">>
                   ELSE IF ModelReplyIs(r, "transport")
                   THEN <<"Failed to communicate with the AI model.">>
                   ELSE <<"An internal server error occurred.">>

(* -------------------------------- C18 ---------------------------------- *)
\* the events of a request that uses a tool, and of one that is answered directly
ToolOrder ==
    << "append_user", "model_call_with_tools", "tool_invocation", "append_tool_call",
       "append_tool_result", "model_call_without_tools", "append_final_text" >>

DirectOrder == << "append_user", "model_call_with_tools", "append_final_text" >>

IsPrefix(s, t) == Len(s) <= Len(t) /\ \A i \in DOMAIN s : s[i] = t[i]

\* the last thing request r did was a model call
EndsWithModelCall(r) ==
    /\ events[r] # << >>
    /\ events[r][Len(events[r])] \in {"model_call_with_tools", "model_call_without_tools"}

FailedReply(reply) == reply.kind \in {"transport", "undecodable"}

\* C18: what a request has done so far is a prefix of: user turn, first model
\* call with the tool declarations, tool invocation, tool-call turn, tool-result
\* turn, second model call without the declarations, final text (or of the direct
\* path without the tool); when the second call is made both tool turns are in
\* the log; a failed model call is the last thing the request does
C18_CallOrdering ==
    \A r \in ReqIds :
        /\ IsPrefix(events[r], ToolOrder) \/ IsPrefix(events[r], DirectOrder)
        /\ Len(events[r]) >= 6
              => LET own == Appended(r)
                 IN  /\ Len(own) >= 3
                     /\ own[2] = ToolCallTurn(function_call[r])
                     /\ own[3] = ToolResponseTurn(function_call[r].name, tool_output[r])
                     /\ "tools" \notin DOMAIN payload_second_call[r]
        /\ (FailedReply(response_initial[r]) \/ FailedReply(response_second[r]))
              => EndsWithModelCall(r) /\ pc[r] = "respond"

\* a request that went through both model calls and the tool
C18_Witness ==
    /\ pc[1] = "respond"
    /\ events[1] = ToolOrder
    /\ response[1].status = 200

(* -------------------------------- C19 ---------------------------------- *)
IsUser(turn) == turn.role = "user"

IsModelText(turn) == turn.role = "model" /\ "text" \in DOMAIN turn.parts[1]

IsToolCall(turn) == turn.role = "model" /\ "functionCall" \in DOMAIN turn.parts[1]

IsToolResult(turn) == turn.role = "function"

\* a user turn, the two tool turns or none, and a final model text
CompleteExchange(x) ==
    \/ Len(x) = 2 /\ IsUser(x[1]) /\ IsModelText(x[2])
    \/ Len(x) = 4 /\ IsUser(x[1]) /\ IsToolCall(x[2]) /\ IsToolResult(x[3]) /\ IsModelText(x[4])

\* an exchange cut short by a failure: the user turn alone, or with the tool turns
CutExchange(x) ==
    \/ Len(x) = 1 /\ IsUser(x[1])
    \/ Len(x) = 3 /\ IsUser(x[1]) /\ IsToolCall(x[2]) /\ IsToolResult(x[3])

\* C19 as stated: between requests every user turn of the log is followed, before
\* the next user turn, by a final model text: the log has no two consecutive user
\* turns and does not end with a user, tool-call or tool-result turn
C19_AsStated ==
    Quiet
        => LET h == conversation_history
           IN  /\ \A i \in 1..(Len(h) - 1) : ~ (IsUser(h[i]) /\ IsUser(h[i + 1]))
               /\ h # << >> => IsModelText(h[Len(h)])

\* C19: a request that ends in success has appended a complete exchange, one that
\* ends in an error has appended an exchange cut short, one without a message
\* nothing; between requests the log is a sequence of such exchanges: it starts
\* with a user turn, a tool-call turn follows a user turn, a tool-result turn a
\* tool-call turn, a model text a user or tool-result turn, and no tool-call turn
\* is last
C19_Exchanges ==
    /\ \A r \in ReqIds :
           pc[r] = "respond"
               => CASE response[r].status = 200 -> CompleteExchange(Appended(r))
                    [] response[r].status = 500 -> CutExchange(Appended(r))
                    [] OTHER -> Appended(r) = << >>
    /\ Quiet
           => LET h == conversation_history
              IN  /\ h # << >> => IsUser(h[1]) /\ ~ IsToolCall(h[Len(h)])
                  /\ \A i \in 2..Len(h) :
                         /\ IsToolCall(h[i]) => IsUser(h[i - 1])
                         /\ IsToolResult(h[i]) => IsToolCall(h[i - 1])
                         /\ IsModelText(h[i]) => IsUser(h[i - 1]) \/ IsToolResult(h[i - 1])
                         /\ IsUser(h[i]) => ~ IsToolCall(h[i - 1])

\* the first request failed at its second model call, the second one succeeded:
\* its user turn follows the tool-result turn the first one left
C19_Witness ==
    /\ pc[1] = "done"
    /\ pc[2] = "respond"
    /\ response[2].status = 200
    /\ CutExchange(Appended(1))
    /\ Len(Appended(1)) = 3
    /\ CompleteExchange(Appended(2))
    /\ \E i \in 2..Len(conversation_history) :
           /\ owner[i - 1] = 1 /\ IsToolResult(conversation_history[i - 1])
           /\ owner[i] = 2 /\ IsUser(conversation_history[i])

(* -------------------------------- C20 ---------------------------------- *)
\* C20: the history sent in every model call begins with a user turn
C20_WindowStartsWithUser ==
    \A r \in ReqIds :
        /\ payload_initial_call[r] # EmptyDict
              => IsUser(payload_initial_call[r].contents[1])
        /\ payload_second_call[r] # EmptyDict
              => IsUser(payload_second_call[r].contents[1])

====
